---------------------------- MODULE Spec2Model ----------------------------
(***************************************************************************)
(* A model of the terminal agent of src/index.js: the session driver       *)
(* (start), the agent loop (runConversation), the oracle client            *)
(* (callGemini) and the two tools (addTwoNumbers, writeFile).              *)
(*                                                                         *)
(* JavaScript runs each callback to completion, so one action of the model *)
(* is one callback or one continuation between two awaits: the script      *)
(* body, the rl.question callback, and the continuations that run when     *)
(* fetch(), response.text() and response.json() settle.                    *)
(*                                                                         *)
(* Representation.  A JavaScript string is a tuple of pieces.  A piece is  *)
(* one character; only fixed text of the program that no code inspects     *)
(* (messages, the system prompt, JSON key prefixes) is kept as one piece.  *)
(* A JavaScript value is a record tagged by k.                             *)
(***************************************************************************)
EXTENDS Integers, Sequences, FiniteSets, TLC

(***************************************************************************)
(* Bounds of the model.                                                    *)
(***************************************************************************)
\* oracle requests one query may issue
MaxIter == 3
\* queries one session may start
MaxQueries == 2

(***************************************************************************)
(* JavaScript values.                                                      *)
(***************************************************************************)
Undef == [k |-> "undefined"]
Null == [k |-> "null"]
NaN == [k |-> "NaN"]
Bool(b) == [k |-> "boolean", b |-> b]
Num(n) == [k |-> "number", n |-> n]
Str(s) == [k |-> "string", s |-> s]

\* the own properties an object of this program can carry; Undef = absent
Obj(step, tool, input, content, filePath, fileContent, output) ==
    [k |-> "object", step |-> step, tool |-> tool, input |-> input,
     content |-> content, filePath |-> filePath, fileContent |-> fileContent,
     output |-> output]

Keys == <<"step", "tool", "input", "content", "filePath", "fileContent", "output">>

\* o.key for a non-null value o: primitives have none of these properties
Get(o, key) == IF o.k = "object" THEN o[key] ELSE Undef

\* ToBoolean
Truthy(v) ==
    CASE v.k = "undefined" -> FALSE
      [] v.k = "null" -> FALSE
      [] v.k = "NaN" -> FALSE
      [] v.k = "boolean" -> v.b
      [] v.k = "number" -> v.n # 0
      [] v.k = "string" -> v.s # <<>>
      [] OTHER -> TRUE

\* typeof v
TypeOf(v) ==
    CASE v.k = "null" -> "object"
      [] v.k = "NaN" -> "number"
      [] OTHER -> v.k

\* isNaN(v) for the values the loop passes: numbers and undefined
IsNaN(v) == v.k \in {"NaN", "undefined"}

(***************************************************************************)
(* Strings.                                                                *)
(***************************************************************************)
sThink == <<"t", "h", "i", "n", "k">>
sAction == <<"a", "c", "t", "i", "o", "n">>
sOutput == <<"o", "u", "t", "p", "u", "t">>
sObserve == <<"o", "b", "s", "e", "r", "v", "e">>
sAddTwoNumbers == <<"a", "d", "d", "T", "w", "o", "N", "u", "m", "b", "e", "r", "s">>
sWriteFile == <<"w", "r", "i", "t", "e", "F", "i", "l", "e">>
sExit == <<"e", "x", "i", "t">>
sNull == <<"n", "u", "l", "l">>
sUndefined == <<"u", "n", "d", "e", "f", "i", "n", "e", "d">>

Digits == <<"0", "1", "2", "3", "4", "5", "6", "7", "8", "9">>

DigitValue(c) == (CHOOSE i \in 1..10 : Digits[i] = c) - 1

IsDigit(c) == \E i \in 1..10 : Digits[i] = c

RECURSIVE NatChars(_)
\* the decimal digits of a natural number
NatChars(n) ==
    IF n < 10 THEN <<Digits[n + 1]>>
    ELSE NatChars(n \div 10) \o <<Digits[(n % 10) + 1]>>

\* Number.prototype.toString for the integers of the model
NumChars(n) == IF n < 0 THEN <<"-">> \o NatChars(0 - n) ELSE NatChars(n)

\* String(v), also the `${v}` of a template literal; the objects of the
\* model are plain data objects, which inherit Object.prototype.toString
ToStr(v) ==
    CASE v.k = "undefined" -> sUndefined
      [] v.k = "null" -> sNull
      [] v.k = "NaN" -> <<"N", "a", "N">>
      [] v.k = "boolean" -> IF v.b THEN <<"t", "r", "u", "e">>
                            ELSE <<"f", "a", "l", "s", "e">>
      [] v.k = "number" -> NumChars(v.n)
      [] v.k = "string" -> v.s
      [] OTHER -> <<"[object Object]">>

Upper == <<"E", "X", "I", "T", "H">>
Lower == <<"e", "x", "i", "t", "h">>

\* String.prototype.toLowerCase over the letters of the model
LowerChar(c) ==
    IF \E i \in 1..Len(Upper) : Upper[i] = c
    THEN Lower[CHOOSE i \in 1..Len(Upper) : Upper[i] = c]
    ELSE c

\* a variant of ToLowerCase that keeps the case of every letter
KeepCase(s) == s

ToLowerCase(s) == [i \in 1..Len(s) |-> LowerChar(s[i])]

RECURSIVE Split(_, _)
\* s.split(sep) for a one-character separator
Split(s, sep) ==
    IF \A i \in 1..Len(s) : s[i] # sep THEN <<s>>
    ELSE LET i == CHOOSE j \in 1..Len(s) :
                      s[j] = sep /\ \A m \in 1..(j - 1) : s[m] # sep
         IN <<SubSeq(s, 1, i - 1)>> \o Split(SubSeq(s, i + 1, Len(s)), sep)

RECURSIVE Trim(_)
\* strips the white space Number() ignores at both ends
Trim(s) ==
    IF s = <<>> THEN s
    ELSE IF Head(s) \in {" ", "\n"} THEN Trim(Tail(s))
    ELSE IF s[Len(s)] \in {" ", "\n"} THEN Trim(SubSeq(s, 1, Len(s) - 1))
    ELSE s

RECURSIVE DigitsValue(_)
DigitsValue(s) ==
    IF s = <<>> THEN 0
    ELSE 10 * DigitsValue(SubSeq(s, 1, Len(s) - 1)) + DigitValue(s[Len(s)])

\* the number a trimmed string t denotes: the empty string is 0, an
\* optionally signed run of decimal digits is its value, anything else NaN
NumberOfTrimmed(t) ==
    LET signed == t # <<>> /\ Head(t) \in {"+", "-"}
        body == IF signed THEN Tail(t) ELSE t
    IN IF t = <<>> THEN Num(0)
       ELSE IF body # <<>> /\ \A i \in 1..Len(body) : IsDigit(body[i])
       THEN Num(IF signed /\ Head(t) = "-" THEN 0 - DigitsValue(body)
                ELSE DigitsValue(body))
       ELSE NaN

\* Number(s) of a string
NumberOf(s) == NumberOfTrimmed(Trim(s))

(***************************************************************************)
(* JSON.stringify.                                                         *)
(***************************************************************************)
\* the escape of one character inside a JSON string
EscapeChar(c) ==
    CASE c = "\"" -> <<"\\", "\"">>
      [] c = "\\" -> <<"\\", "\\">>
      [] c = "\n" -> <<"\\", "n">>
      [] OTHER -> <<c>>

RECURSIVE Escape(_)
Escape(s) == IF s = <<>> THEN <<>> ELSE EscapeChar(Head(s)) \o Escape(Tail(s))

RECURSIVE Stringify(_)
RECURSIVE StringifyProps(_, _, _)
\* the properties of o from key number i on, the absent ones skipped
StringifyProps(o, i, first) ==
    IF i > Len(Keys) THEN <<>>
    ELSE IF o[Keys[i]].k = "undefined" THEN StringifyProps(o, i + 1, first)
    ELSE (IF first THEN <<>> ELSE <<",">>)
         \o <<"\"", Keys[i], "\"", ":">> \o Stringify(o[Keys[i]])
         \o StringifyProps(o, i + 1, FALSE)

\* JSON.stringify(v) of a value that is not undefined
Stringify(v) ==
    CASE v.k = "null" -> sNull
      [] v.k = "NaN" -> sNull
      [] v.k = "boolean" -> ToStr(v)
      [] v.k = "number" -> NumChars(v.n)
      [] v.k = "string" -> <<"\"">> \o Escape(v.s) \o <<"\"">>
      [] OTHER -> <<"{">> \o StringifyProps(v, 1, TRUE) \o <<"}">>

\* `${JSON.stringify(v)}`: JSON.stringify(undefined) is undefined
StringifyOrUndefined(v) == IF v.k = "undefined" THEN sUndefined ELSE Stringify(v)

(***************************************************************************)
(* The file system seen through fs and path.  A file system is the set of  *)
(* its directories and the content of its files, keyed by relative path;   *)
(* "." is the working directory.                                           *)
(***************************************************************************)
EmptyFs == [dirs |-> {}, files |-> <<>>]

Dot == <<".">>

RECURSIVE StripSlashes(_)
StripSlashes(p) ==
    IF Len(p) > 1 /\ p[Len(p)] = "/" THEN StripSlashes(SubSeq(p, 1, Len(p) - 1))
    ELSE p

\* the directory part of a path q without trailing slashes
DirnameOf(q) ==
    LET slashes == {i \in 1..Len(q) : q[i] = "/"}
    IN IF slashes = {} THEN Dot
       ELSE LET i == CHOOSE j \in slashes : \A m \in slashes : m <= j
            IN IF i = 1 THEN <<"/">> ELSE StripSlashes(SubSeq(q, 1, i - 1))

\* path.dirname(p) for a POSIX path string
Dirname(p) == DirnameOf(StripSlashes(p))

IsFile(f, p) == p \in DOMAIN f.files

IsDir(f, p) == p = Dot \/ p \in f.dirs

\* fs.existsSync(p)
ExistsSync(f, p) == IsDir(f, p) \/ IsFile(f, p)

\* d and the directories above it, the working directory left out
Chain(d) ==
    {SubSeq(d, 1, i) : i \in {j \in 1..Len(d) : j = Len(d) \/ d[j + 1] = "/"}}
        \ {Dot}

\* the outcome of a file-system call: the new file system, or the message
\* of the error thrown
Done(f) == [ok |-> TRUE, fs |-> f, message |-> <<>>]

Thrown(f, message) == [ok |-> FALSE, fs |-> f, message |-> message]

\* fs.mkdirSync(d, { recursive: true })
MkdirSync(f, d) ==
    IF \E a \in Chain(d) : IsFile(f, a)
    THEN Thrown(f, <<"ENOTDIR: not a directory, mkdir">>)
    ELSE Done([f EXCEPT !.dirs = @ \cup Chain(d)])

\* fs.writeFileSync(p, data): data has to be a string, p must not be a
\* directory and has to lie in an existing directory
WriteFileSync(f, p, data) ==
    IF data.k # "string"
    THEN Thrown(f, <<"The \"data\" argument must be of type string">>)
    ELSE IF IsDir(f, p)
    THEN Thrown(f, <<"EISDIR: illegal operation on a directory, open">>)
    ELSE IF ~IsDir(f, Dirname(p))
    THEN Thrown(f, <<"ENOTDIR: not a directory, open">>)
    ELSE Done([f EXCEPT !.files =
                 [q \in DOMAIN f.files \cup {p} |->
                     IF q = p THEN data.s ELSE f.files[q]]])

(***************************************************************************)
(* The tools.                                                              *)
(***************************************************************************)
\* addTwoNumbers(x, y)
addTwoNumbers(x, y) == Num(x.n + y.n)

\* if (!fs.existsSync(dirname)) fs.mkdirSync(dirname, { recursive: true })
EnsureDir(f, dirname) ==
    IF ~ExistsSync(f, dirname) THEN MkdirSync(f, dirname) ELSE Done(f)

\* fs.writeFileSync(filePath, fileContent), unless the step before threw
ThenWrite(made, filePath, fileContent) ==
    IF made.ok THEN WriteFileSync(made.fs, filePath, fileContent) ELSE made

\* the status message writeFile returns, from the try or the catch block
WriteStatus(written, filePath, fileContent) ==
    IF written.ok
    THEN [fs |-> written.fs,
          result |-> <<"Successfully wrote ">> \o NumChars(Len(fileContent.s))
                     \o <<" bytes to ">> \o filePath]
    ELSE [fs |-> written.fs,
          result |-> <<"Error writing file: ">> \o written.message]

\* writeFile(filePath, fileContent): the file system after the call and
\* the status message returned
writeFile(f, filePath, fileContent) ==
    IF filePath.k # "string"
    THEN [fs |-> f,
          result |-> <<"Error writing file: ">>
                     \o <<"The \"path\" argument must be of type string">>]
    ELSE WriteStatus(ThenWrite(EnsureDir(f, Dirname(filePath.s)),
                               filePath.s, fileContent),
                     filePath.s, fileContent)

(***************************************************************************)
(* Program constants.                                                      *)
(***************************************************************************)
\* the hard-coded key
GEMINI_API_KEY == Str(<<"api key">>)

SYSTEM_PROMPT == <<"You are a helpful assistant designed to solve user queries ...">>

\* the canned acknowledgment the history is seeded with
Acknowledgment ==
    <<"{\"step\": \"think\", \"tool\": null, \"input\": null, \"content\": \"Okay, I understand the instructions. ...\"}">>

(***************************************************************************)
(* State.                                                                  *)
(***************************************************************************)
VARIABLES
    pc,           \* where the program is suspended: "boot" (the script has
                  \* not run), "question" (rl.question waits for a line),
                  \* "fetch", "text", "json" (callGemini awaits fetch(),
                  \* response.text(), response.json()), "closed" (rl.close()
                  \* was called), "exited" (process.exit(1))
    chatHistory,  \* the global chatHistory: a sequence of Turns
    fs,           \* the file system
    requestBody,  \* the contents serialized into the body of the fetch that
                  \* is outstanding, <<>> when none is
    response,     \* the Response fetch() resolved with, while callGemini
                  \* reads its body
    trace,        \* the last line read and what the program did since, in
                  \* order: lines printed, requests sent, Turns pushed, tools
                  \* called, values returned by callGemini, the loop left,
                  \* the question asked
    decisions,    \* the truthy values callGemini returned to the loop since
                  \* the last line was read
    queries,      \* the number of queries started in this session
    env           \* the value of GEMINI_API_KEY in the environment of the
                  \* process, Undef when it is not set

vars ==
    <<pc, chatHistory, fs, requestBody, response, trace, decisions, queries, env>>

Turn(role, text) == [role |-> role, text |-> text]

Ev(e, a, t) == [e |-> e, a |-> a, t |-> t]

NoResponse == [ok |-> FALSE, status |-> 0]

\* the number of events of kind e in a trace
Count(tr, e) == Cardinality({i \in DOMAIN tr : tr[i].e = e})

(***************************************************************************)
(* The oracle's answers.  The text of a candidate is a tuple of tokens: a  *)
(* code fence opening, a line break, a code fence end, the JSON text of a  *)
(* value, or text that is no JSON.                                         *)
(***************************************************************************)
Tok(t, v) == [t |-> t, v |-> v]

\* the characters ```json
tFence == Tok("fence", Undef)

\* the characters ```
tTicks == Tok("ticks", Undef)

tNl == Tok("\n", Undef)

tJunk == Tok("junk", Undef)

tJson(v) == Tok("json", v)

\* rawText.replace(/^```json\n?/, "")
StripOpen(text) ==
    IF text # <<>> /\ text[1] = tFence
    THEN IF Len(text) > 1 /\ text[2] = tNl THEN SubSeq(text, 3, Len(text))
         ELSE Tail(text)
    ELSE text

\* text.replace(/\n?```$/, "")
StripClose(text) ==
    IF text # <<>> /\ text[Len(text)] = tTicks
    THEN IF Len(text) > 1 /\ text[Len(text) - 1] = tNl
         THEN SubSeq(text, 1, Len(text) - 2)
         ELSE SubSeq(text, 1, Len(text) - 1)
    ELSE text

Returned(v) == [thrown |-> FALSE, value |-> v, message |-> <<>>]

Threw(message) == [thrown |-> TRUE, value |-> Null, message |-> message]

\* JSON.parse(text): white space around one JSON text is skipped
JSONparse(text) ==
    LET body == SelectSeq(text, LAMBDA tok : tok # tNl)
    IN IF Len(body) = 1 /\ body[1].t = "json" THEN Returned(body[1].v)
       ELSE Threw(<<"Unexpected token in JSON">>)

\* callGemini from `const result = await response.json()` on: the value it
\* returns from the try block, or the error thrown there
ReadResult(result) ==
    IF Len(result.candidates) > 0
    THEN IF ~result.candidates[1].content
         THEN Threw(<<"Cannot read properties of undefined (reading 'parts')">>)
         ELSE JSONparse(StripClose(StripOpen(result.candidates[1].text)))
    ELSE IF result.promptFeedback
    THEN Threw(<<"API blocked the prompt. Reason: ">> \o <<"SAFETY">>)
    ELSE Threw(<<"Invalid response structure from API.">>)

(***************************************************************************)
(* The agent loop.  The body of the while loop works on a record st: the   *)
(* history h, the file system f, the trace tr, and cont, which is FALSE    *)
(* once a break was executed.                                              *)
(***************************************************************************)
\* printStep(type, text)
printStep(st, type, text) == [st EXCEPT !.tr = Append(@, Ev("print", type, text))]

\* a variant of PushModel that keeps only the seed and the newest Turn
PushModelReplaces(st, r) ==
    [st EXCEPT !.h = SubSeq(@, 1, 3) \o <<Turn("model", Stringify(r))>>,
               !.tr = Append(@, Ev("push", "model", <<>>))]

\* chatHistory.push({ role: "model", parts: [{ text: JSON.stringify(response) }] })
PushModel(st, r) ==
    [st EXCEPT !.h = Append(@, Turn("model", Stringify(r))),
               !.tr = Append(@, Ev("push", "model", <<>>))]

\* the branch step === "think"
ThinkStep(st, content) == printStep(st, "think", ToStr(content))

\* a variant of OutputStep without the break
OutputStepNoBreak(st, content) == printStep(st, "output", ToStr(content))

\* the branch step === "output"
OutputStep(st, content) ==
    [printStep(st, "output", ToStr(content)) EXCEPT !.cont = FALSE]

\* parts.map(Number)
MapNumber(parts) == [i \in 1..Len(parts) |-> NumberOf(parts[i])]

\* the try block of the branch tool === "addTwoNumbers" once x and y are
\* bound, and its catch block
AddChecked(st, x, y) ==
    IF IsNaN(x) \/ IsNaN(y)
    THEN [st |-> st,
          result |-> Str(<<"Error executing tool: ">> \o <<"Invalid number input.">>)]
    ELSE [st |-> [st EXCEPT !.tr = Append(@, Ev("tool", "addTwoNumbers", <<>>))],
          result |-> addTwoNumbers(x, y)]

\* const [x, y] = nums: a missing element is undefined
AddDestructured(st, nums) ==
    AddChecked(st, nums[1], IF Len(nums) >= 2 THEN nums[2] ELSE Undef)

\* the branch tool === "addTwoNumbers": the state and the result
RunAddTwoNumbers(st, input) ==
    AddDestructured(st, MapNumber(Split(ToStr(input), ",")))

\* result = writeFile(input.filePath, input.fileContent)
Wrote(st, w) ==
    [st |-> [st EXCEPT !.f = w.fs, !.tr = Append(@, Ev("tool", "writeFile", <<>>))],
     result |-> Str(w.result)]

\* the branch tool === "writeFile": the state and the result
RunWriteFile(st, input) ==
    IF \/ TypeOf(input) # "object"
       \/ input = Null
       \/ ~Truthy(Get(input, "filePath"))
       \/ TypeOf(Get(input, "fileContent")) = "undefined"
    THEN [st |-> st,
          result |-> Str(<<"Error executing tool: ">>
              \o <<"Invalid input for writeFile. Expected an object with 'filePath' and 'fileContent'.">>)]
    ELSE Wrote(st, writeFile(st.f, Get(input, "filePath"), Get(input, "fileContent")))

\* a variant of Dispatch whose final else runs writeFile
DispatchDefaultsToWriteFile(st, tool, input) ==
    IF tool = Str(sAddTwoNumbers) THEN RunAddTwoNumbers(st, input)
    ELSE RunWriteFile(st, input)

\* the tool dispatch of the branch step === "action"
Dispatch(st, tool, input) ==
    IF tool = Str(sAddTwoNumbers) THEN RunAddTwoNumbers(st, input)
    ELSE IF tool = Str(sWriteFile) THEN RunWriteFile(st, input)
    ELSE [st |-> st, result |-> Str(<<"Unknown tool: ">> \o ToStr(tool))]

\* a variant of ObservationTurn that pushes the bare result text
ObservationTurnRaw(result) == Turn("user", ToStr(result))

\* the Turn that carries an Observation
ObservationTurn(result) ==
    Turn("user",
         Stringify(Obj(Str(sObserve), Undef, Undef, Undef, Undef, Undef, result)))

\* chatHistory.push({ role: "user", parts: [{ text: ... }] })
PushObservation(st, result) ==
    [st EXCEPT !.h = Append(@, ObservationTurn(result)),
               !.tr = Append(@, Ev("push", "user", <<>>))]

\* a variant of Observe that leaves the loop when the tool reported an error
ObserveStopsOnError(d) ==
    [PushObservation(printStep(d.st, "observe", <<"Result: ">> \o ToStr(d.result)),
                     d.result)
       EXCEPT !.cont = ~(/\ d.result.k = "string"
                         /\ d.result.s[1] \in {"Error executing tool: ",
                                               "Error writing file: ",
                                               "Unknown tool: "})]

\* a variant of Observe that pushes no Turn for a result that is an error
\* message
ObserveSuccessOnly(d) ==
    IF d.result.k = "string" /\ d.result.s[1] \in {"Error executing tool: ",
                                                   "Error writing file: ",
                                                   "Unknown tool: "}
    THEN printStep(d.st, "observe", <<"Result: ">> \o ToStr(d.result))
    ELSE PushObservation(printStep(d.st, "observe", <<"Result: ">> \o ToStr(d.result)),
                         d.result)

\* the end of the branch step === "action": d holds the state and the result
Observe(d) ==
    PushObservation(printStep(d.st, "observe", <<"Result: ">> \o ToStr(d.result)),
                    d.result)

\* the branch step === "action"
ActionStep(st, tool, input) ==
    Observe(Dispatch(printStep(st, "action",
                         <<"Tool: ">> \o ToStr(tool) \o <<", Input: ">>
                             \o StringifyOrUndefined(input)),
                     tool, input))

\* a variant of Interpret that runs a tool whenever the response names one
InterpretToolFirst(st, step, tool, input, content) ==
    IF Truthy(tool) /\ step # Str(sOutput) THEN ActionStep(st, tool, input)
    ELSE IF step = Str(sThink) THEN ThinkStep(st, content)
    ELSE IF step = Str(sOutput) THEN OutputStep(st, content)
    ELSE st

\* a variant of Interpret that leaves the loop on a step it does not know
InterpretElseBreaks(st, step, tool, input, content) ==
    IF step = Str(sThink) THEN ThinkStep(st, content)
    ELSE IF step = Str(sAction) THEN ActionStep(st, tool, input)
    ELSE IF step = Str(sOutput) THEN OutputStep(st, content)
    ELSE [st EXCEPT !.cont = FALSE]

\* the step branches of one iteration, after the model Turn was pushed
Interpret(st, step, tool, input, content) ==
    IF step = Str(sThink) THEN ThinkStep(st, content)
    ELSE IF step = Str(sAction) THEN ActionStep(st, tool, input)
    ELSE IF step = Str(sOutput) THEN OutputStep(st, content)
    ELSE st

\* a variant of LoopBody that pushes the model Turn after the step branches
LoopBodyPushLast(st, r) ==
    PushModel(Interpret(st, Get(r, "step"), Get(r, "tool"), Get(r, "input"),
                        Get(r, "content")),
              r)

\* one iteration of the while loop for a truthy response r
LoopBody(st, r) ==
    Interpret(PushModel(st, r),
              Get(r, "step"), Get(r, "tool"), Get(r, "input"), Get(r, "content"))

\* the catch block of callGemini
Catch(tr, message) ==
    Append(tr, Ev("print", "error",
                  <<"Error calling Gemini API or parsing response: ">> \o message))

\* a variant of LeaveLoop without the call of start()
LeaveLoopSilent(tr) == Append(tr, Ev("break", "", <<>>))

\* the loop is left and start() asks the next question
LeaveLoop(tr) == tr \o <<Ev("break", "", <<>>), Ev("question", "", <<>>)>>

\* callGemini returns ret to the loop, which tests !response
Returns(ret) == Ev("return", IF Truthy(ret) THEN "truthy" ELSE "falsy", <<>>)

\* a variant of EndIteration that calls start() at the end of every
\* iteration, also when the loop goes on
EndIterationAsks(st) ==
    /\ chatHistory' = st.h
    /\ fs' = st.f
    /\ IF st.cont
       THEN /\ Count(trace, "fetch") < MaxIter
            /\ trace' = st.tr \o <<Ev("question", "", <<>>), Ev("fetch", "", <<>>)>>
            /\ requestBody' = st.h
            /\ pc' = "fetch"
       ELSE /\ trace' = LeaveLoop(st.tr)
            /\ requestBody' = <<>>
            /\ pc' = "question"

\* the end of an iteration that left the state st: the loop is left, or
\* callGemini is called again and runs up to its fetch
EndIteration(st) ==
    /\ chatHistory' = st.h
    /\ fs' = st.f
    /\ IF st.cont
       THEN /\ Count(trace, "fetch") < MaxIter
            /\ trace' = Append(st.tr, Ev("fetch", "", <<>>))
            /\ requestBody' = st.h
            /\ pc' = "fetch"
       ELSE /\ trace' = LeaveLoop(st.tr)
            /\ requestBody' = <<>>
            /\ pc' = "question"

\* runConversation from the point where callGemini returned ret, which ran
\* up to trace tr0: the rest of the iteration and, unless the loop is left,
\* the next callGemini up to its fetch
AfterCallGemini(ret, tr0) ==
    /\ response' = NoResponse
    /\ queries' = queries
    /\ env' = env
    /\ IF ~Truthy(ret)
       THEN /\ trace' = LeaveLoop(Append(tr0, Returns(ret)))
            /\ pc' = "question"
            /\ requestBody' = <<>>
            /\ UNCHANGED <<chatHistory, fs, decisions>>
       ELSE /\ decisions' = Append(decisions, ret)
            /\ EndIteration(LoopBody([h |-> chatHistory, f |-> fs,
                                      tr |-> Append(tr0, Returns(ret)),
                                      cont |-> TRUE], ret))

(***************************************************************************)
(* What the environment supplies: the lines typed, the HTTP statuses, the  *)
(* bodies the API answers with.                                            *)
(***************************************************************************)
UserQueries ==
    {<<"h", "i">>, sExit, <<"E", "x", "I", "T">>, <<"e", "x", "i", "t", " ">>}

Statuses == {200, 500}

Decision(step, tool, input, content) ==
    Obj(step, tool, input, content, Undef, Undef, Undef)

FileInput(filePath, fileContent) ==
    Obj(Undef, Undef, Undef, Undef, filePath, fileContent, Undef)

pFile == <<"o", "/", "s", "/", "f">>

pDir == <<"o", "/", "s">>

WriteA == FileInput(Str(pFile), Str(<<"h", "i">>))

ThinkDecisions ==
    {Decision(Str(sThink), Null, Null, Str(<<"p", "l", "a", "n">>)),
     Decision(Str(sThink), Str(sWriteFile), WriteA, Str(<<"p", "l", "a", "n">>))}

OutputDecisions ==
    {Decision(Str(sOutput), Null, Null, Str(<<"d", "o", "n", "e">>)),
     Decision(Str(sOutput), Str(sWriteFile), WriteA, Undef)}

\* action Decisions whose tool is no registered name
UnknownToolDecisions ==
    {Decision(Str(sAction), Undef, Str(<<"1", ",", "2">>), Undef),
     Decision(Str(sAction), Str(<<"r", "m">>), WriteA, Undef)}

AddDecisions ==
    {Decision(Str(sAction), Str(sAddTwoNumbers), Str(<<"1", "0", ",", "2", "0">>), Undef),
     Decision(Str(sAction), Str(sAddTwoNumbers), Str(<<"a", ",", "5">>), Undef)}

\* a write of o/s/f, a write of o/s (which fails once o/s is a directory,
\* and makes later writes of o/s/f fail when it comes first), and an input
\* that is no object
WriteDecisions ==
    {Decision(Str(sAction), Str(sWriteFile), WriteA, Undef),
     Decision(Str(sAction), Str(sWriteFile), FileInput(Str(pDir), Str(<<>>)), Undef),
     Decision(Str(sAction), Str(sWriteFile), Str(pFile), Undef)}

\* objects whose step is none of think, action, output
OtherObjects == {Decision(Str(<<"T", "h", "i", "n", "k">>), Null, Null, Undef)}

\* what JSON.parse can yield
ParsedValues ==
    {Null, Bool(FALSE), Num(0), Str(<<>>), Num(7)}
        \cup ThinkDecisions \cup OutputDecisions \cup UnknownToolDecisions
        \cup AddDecisions \cup WriteDecisions \cup OtherObjects

Candidate(text) == [content |-> TRUE, text |-> text]

ApiResult(candidates, promptFeedback) ==
    [candidates |-> candidates, promptFeedback |-> promptFeedback]

\* the texts a candidate can carry: every value bare, fenced, fenced
\* without line breaks; and texts JSON.parse rejects
RawTexts ==
    {<<tJson(v)>> : v \in ParsedValues}
        \cup {<<tFence, tNl, tJson(v), tNl, tTicks>> : v \in ThinkDecisions}
        \cup {<<tFence, tJson(v), tTicks>> : v \in OutputDecisions}
        \cup {<<tJunk>>, <<tJson(Null), tJunk>>}
        \cup {<<tFence, tNl, tJson(v), tNl, tTicks, tNl>> : v \in OutputDecisions}

\* the bodies response.json() can resolve with
ApiResults ==
    {ApiResult(<<Candidate(t)>>, FALSE) : t \in RawTexts}
        \cup {ApiResult(<<[content |-> FALSE, text |-> <<>>]>>, FALSE),
              ApiResult(<<>>, TRUE),
              ApiResult(<<>>, FALSE)}

(***************************************************************************)
(* The actions.                                                            *)
(***************************************************************************)
Init ==
    /\ pc = "boot"
    /\ chatHistory = <<>>
    /\ fs = EmptyFs
    /\ requestBody = <<>>
    /\ response = NoResponse
    /\ trace = <<>>
    /\ decisions = <<>>
    /\ queries = 0
    /\ env = Str(<<"k", "e", "y">>)

\* the script body: the key check, the banner, start()
Boot ==
    /\ pc = "boot"
    /\ IF ~Truthy(GEMINI_API_KEY)
       THEN /\ pc' = "exited"
            /\ trace' = <<Ev("print", "error",
                   <<"Error: GEMINI_API_KEY environment variable is not set.">>)>>
       ELSE /\ pc' = "question"
            /\ trace' = <<Ev("log", "", <<"--- Gemini AI Agent (Terminal) ---">>),
                          Ev("question", "", <<>>)>>
    /\ UNCHANGED <<chatHistory, fs, requestBody, response, decisions, queries, env>>

\* a variant of Seed that appends the seed Turns to the history
SeedKeepsHistory(userQuery) ==
    chatHistory \o <<Turn("user", SYSTEM_PROMPT), Turn("model", Acknowledgment),
                     Turn("user", userQuery)>>

\* the history a query starts with
Seed(userQuery) ==
    <<Turn("user", SYSTEM_PROMPT), Turn("model", Acknowledgment),
      Turn("user", userQuery)>>

\* the rl.question callback of start(), up to the first fetch of
\* runConversation
Question(userQuery) ==
    /\ pc = "question"
    /\ decisions' = <<>>
    /\ response' = response
    /\ fs' = fs
    /\ env' = env
    /\ IF ToLowerCase(userQuery) = sExit
       THEN /\ pc' = "closed"
            /\ trace' = <<Ev("line", "", userQuery), Ev("close", "", <<>>)>>
            /\ UNCHANGED <<chatHistory, requestBody, queries>>
       ELSE /\ queries < MaxQueries
            /\ queries' = queries + 1
            /\ chatHistory' = Seed(userQuery)
            /\ trace' = <<Ev("line", "", userQuery),
                          Ev("seed", "", <<>>),
                          Ev("log", "", <<"Agent is processing...">>),
                          Ev("fetch", "", <<>>)>>
            /\ requestBody' = chatHistory'
            /\ pc' = "fetch"

\* a variant of Settle that sends the request again after an error, as
\* long as the query may send one
SettleRetries(c) ==
    IF c.thrown /\ Count(trace, "fetch") < MaxIter
    THEN /\ trace' = Append(Catch(trace, c.message), Ev("fetch", "", <<>>))
         /\ pc' = "fetch"
         /\ response' = NoResponse
         /\ UNCHANGED <<chatHistory, fs, requestBody, decisions, queries, env>>
    ELSE IF c.thrown THEN AfterCallGemini(Null, Catch(trace, c.message))
    ELSE AfterCallGemini(c.value, trace)

\* a variant of Settle without the catch block: the error leaves
\* callGemini and runConversation, and the process dies of it
SettleNoCatch(c) ==
    IF c.thrown
    THEN /\ pc' = "crashed"
         /\ UNCHANGED <<chatHistory, fs, requestBody, response, trace, decisions,
                        queries, env>>
    ELSE AfterCallGemini(c.value, trace)

\* callGemini ends with the outcome c of its try block: the value is
\* returned, or the catch block reports the error and returns null
Settle(c) ==
    IF c.thrown THEN AfterCallGemini(Null, Catch(trace, c.message))
    ELSE AfterCallGemini(c.value, trace)

\* fetch() rejects: the transport failed
FetchRejected ==
    /\ pc = "fetch"
    /\ Settle(Threw(<<"fetch failed">>))

\* fetch() resolves with a Response
FetchResolved(status) ==
    /\ pc = "fetch"
    /\ response' = [ok |-> status \in 200..299, status |-> status]
    /\ pc' = IF response'.ok THEN "json" ELSE "text"
    /\ UNCHANGED <<chatHistory, fs, requestBody, trace, decisions, queries, env>>

\* response.text() of a non-ok Response settles: the API error is thrown
TextSettled ==
    /\ pc = "text"
    /\ Settle(Threw(<<"API Error: ">> \o NumChars(response.status)))

\* response.json() rejects: the body is no JSON
JsonRejected ==
    /\ pc = "json"
    /\ Settle(Threw(<<"Unexpected token in JSON">>))

\* response.json() resolves with result
JsonResolved(result) ==
    /\ pc = "json"
    /\ Settle(ReadResult(result))

Next ==
    \/ Boot
    \/ \E userQuery \in UserQueries : Question(userQuery)
    \/ FetchRejected
    \/ \E status \in Statuses : FetchResolved(status)
    \/ TextSettled
    \/ JsonRejected
    \/ \E result \in ApiResults : JsonResolved(result)

Spec == Init /\ [][Next]_vars

(***************************************************************************)
(* Vocabulary of the properties.                                           *)
(***************************************************************************)
\* callGemini is suspended in an await
LoopPcs == {"fetch", "text", "json"}

StepOf(d) == Get(d, "step")

\* the places of the events of kind e in the trace
Events(e) == {i \in DOMAIN trace : trace[i].e = e}

\* the places of the lines of one category in the trace
Prints(type) == {i \in DOMAIN trace : trace[i].e = "print" /\ trace[i].a = type}

\* callGemini returned a falsy value to the loop of the current query
Failed == \E i \in Events("return") : trace[i].a = "falsy"

\* this step is the continuation in which callGemini returns to the loop
ReturnStep == Cardinality(Events("return")) < Count(trace', "return")

\* this step hands the loop a Decision, which decisions' then ends with
Receives == Len(decisions') = Len(decisions) + 1

Received == decisions'[Len(decisions')]

IsPrefix(s, t) == Len(s) <= Len(t) /\ SubSeq(t, 1, Len(s)) = s

(***************************************************************************)
(* C1.  The first Decision with step = output ends the loop of its query: *)
(* it is the last Decision of the query however many think and action     *)
(* Decisions came before it, its content is printed as the one output     *)
(* line, the loop is left once, the question is asked again, and the      *)
(* requests of the query are those that brought the Decisions: none is    *)
(* sent after the output.                                                  *)
(***************************************************************************)
C1_OutputEndsLoopOnce ==
    \A i \in DOMAIN decisions :
        StepOf(decisions[i]) = Str(sOutput) =>
            /\ i = Len(decisions)
            /\ pc = "question"
            /\ requestBody = <<>>
            /\ Cardinality(Prints("output")) = 1
            /\ Cardinality(Events("break")) = 1
            /\ Cardinality(Events("fetch")) = i
            /\ \A m \in Prints("output") :
                  /\ \A j \in Events("fetch") : j < m
                  /\ Get(decisions[i], "content").k = "string"
                        => trace[m].t = Get(decisions[i], "content").s
                  /\ SubSeq(trace, m + 1, Len(trace))
                        = <<Ev("break", "", <<>>), Ev("question", "", <<>>)>>

\* an output Decision arrived third, after a think and an action Decision
C1_Witness ==
    /\ Len(decisions) = 3
    /\ StepOf(decisions[1]) = Str(sThink)
    /\ StepOf(decisions[2]) = Str(sAction)
    /\ StepOf(decisions[3]) = Str(sOutput)
    /\ pc = "question"

(***************************************************************************)
(* C2.  The step that receives a Decision with step = think, whatever its *)
(* tool and input, appends the model Turn of that Decision to the history *)
(* and nothing else, calls no tool, leaves the file system alone, prints  *)
(* the thought, and sends the next request with the new history.          *)
(***************************************************************************)
C2_ThinkOnlyAppends ==
    [][(Receives /\ StepOf(Received) = Str(sThink)) =>
         /\ chatHistory' = Append(chatHistory, Turn("model", Stringify(Received)))
         /\ fs' = fs
         /\ trace' = trace \o
                <<Ev("return", "truthy", <<>>),
                  Ev("push", "model", <<>>),
                  Ev("print", "think", ToStr(Get(Received, "content"))),
                  Ev("fetch", "", <<>>)>>
         /\ pc' = "fetch"
         /\ requestBody' = chatHistory']_vars

\* a think Decision that names writeFile with a valid input was received,
\* and no file was written
C2_Witness ==
    /\ decisions # <<>>
    /\ StepOf(decisions[Len(decisions)]) = Str(sThink)
    /\ Get(decisions[Len(decisions)], "tool") = Str(sWriteFile)
    /\ pc = "fetch"
    /\ fs = EmptyFs

(***************************************************************************)
(* C3.  A step in which callGemini ends without a Decision for the loop   *)
(* (the oracle client failed) leaves the loop and asks the question       *)
(* again: nothing is thrown out of runConversation.  After a failure the  *)
(* driver waits for a line and takes it: a new query as long as the       *)
(* session may start one, exit at any time.                               *)
(***************************************************************************)
C3_FailureEndsLoopNotSession ==
    [][/\ (pc \in LoopPcs /\ pc' \notin LoopPcs /\ ~Receives) =>
              /\ pc' = "question"
              /\ requestBody' = <<>>
              /\ Count(trace', "break") = 1
              /\ SubSeq(trace', Len(trace') - 1, Len(trace'))
                     = <<Ev("break", "", <<>>), Ev("question", "", <<>>)>>
       /\ Failed =>
              /\ pc = "question"
              /\ \A userQuery \in UserQueries :
                     (queries < MaxQueries \/ ToLowerCase(userQuery) = sExit)
                         => ENABLED Question(userQuery)]_vars

\* the second request of a query failed with an error line, and the
\* session may start another query
C3_Witness ==
    /\ Failed
    /\ Len(decisions) = 1
    /\ Prints("error") # {}
    /\ queries < MaxQueries

(***************************************************************************)
(* More vocabulary.                                                        *)
(***************************************************************************)
\* a query was seeded since the last line was read
InQuery == Events("seed") # {}

\* the Turns pushed in the current query
Pushes == Events("push")

\* this step ends a callGemini that brings the loop no Decision
RequestFails ==
    /\ pc \in LoopPcs
    /\ ~Receives
    /\ ~(pc = "fetch" /\ pc' \in {"text", "json"})

\* the three Turns a query for the line read starts with
SeedTurns(line) ==
    <<[role |-> "user", text |-> SYSTEM_PROMPT],
      [role |-> "model", text |-> Acknowledgment],
      [role |-> "user", text |-> line]>>

\* the JSON text {"step":"observe","output": ... up to the value of output
ObservePrefix ==
    <<"{", "\"", "step", "\"", ":", "\"", "o", "b", "s", "e", "r", "v", "e", "\"",
      ",", "\"", "output", "\"", ":">>

\* the JSON text of an Observation whose output has the JSON text json
ObserveText(json) == ObservePrefix \o json \o <<"}">>

IsObserveText(text) ==
    /\ Len(text) > Len(ObservePrefix) + 1
    /\ SubSeq(text, 1, Len(ObservePrefix)) = ObservePrefix
    /\ text[Len(text)] = "}"

\* the name an Observation gives a tool that is a string, null or absent
ToolName(tool) ==
    IF tool.k = "string" THEN tool.s
    ELSE IF tool.k = "null" THEN <<"n", "u", "l", "l">>
    ELSE <<"u", "n", "d", "e", "f", "i", "n", "e", "d">>

RECURSIVE ExpectedRoles(_)
\* the roles of the Turns a sequence of Decisions leaves after the seed: a
\* model Turn each, followed by a user Turn after an action Decision
ExpectedRoles(ds) ==
    IF ds = <<>> THEN <<>>
    ELSE <<"model">>
         \o (IF StepOf(Head(ds)) = Str(sAction) THEN <<"user">> ELSE <<>>)
         \o ExpectedRoles(Tail(ds))

\* the Turns of a history after its seed
AfterSeed(h) == SubSeq(h, 4, Len(h))

ModelTurns(h) == SelectSeq(AfterSeed(h), LAMBDA t : t.role = "model")

\* the model Turns of h after the seed hold the Decisions ds, in order
CarriesDecisions(h, ds) ==
    /\ Len(ModelTurns(h)) = Len(ds)
    /\ \A j \in DOMAIN ds : ModelTurns(h)[j].text = Stringify(ds[j])

(***************************************************************************)
(* C4.  The step that receives an action Decision whose tool is absent or *)
(* no registered name appends the model Turn and the Observation Turn     *)
(* {"step":"observe","output":"Unknown tool: <name>"}, prints that        *)
(* Observation, runs no tool, leaves the file system alone, and sends the *)
(* next request: the loop is not left.                                     *)
(***************************************************************************)
C4_UnknownToolObserved ==
    [][(/\ Receives
        /\ StepOf(Received) = Str(sAction)
        /\ Get(Received, "tool") \notin {Str(sAddTwoNumbers), Str(sWriteFile)}) =>
         /\ chatHistory' = chatHistory \o
                <<[role |-> "model", text |-> Stringify(Received)],
                  [role |-> "user",
                   text |-> ObserveText(<<"\"", "Unknown tool: ">>
                                \o ToolName(Get(Received, "tool")) \o <<"\"">>)]>>
         /\ fs' = fs
         /\ Count(trace', "tool") = Count(trace, "tool")
         /\ trace'[Len(trace') - 2] =
                Ev("print", "observe", <<"Result: ", "Unknown tool: ">>
                       \o ToolName(Get(Received, "tool")))
         /\ Count(trace', "break") = 0
         /\ pc' = "fetch"
         /\ requestBody' = chatHistory']_vars

\* two action Decisions were received, one without a tool, one naming rm
\* with an input writeFile would accept, and no file was written
C4_Witness ==
    /\ Len(decisions) = 2
    /\ StepOf(decisions[1]) = Str(sAction)
    /\ Get(decisions[1], "tool") = Undef
    /\ StepOf(decisions[2]) = Str(sAction)
    /\ Get(decisions[2], "tool") = Str(<<"r", "m">>)
    /\ fs = EmptyFs
    /\ pc = "fetch"

(***************************************************************************)
(* C5.  When the loop of a query has been left, callGemini had returned   *)
(* no Decision (null after an error, or a falsy decoded value, which the  *)
(* loop takes for one) or the last Decision has step = output.  No action *)
(* Decision ends the loop, whatever its tool did: after every action      *)
(* Decision another request was sent.                                      *)
(***************************************************************************)
C5_LoopEndsOnlyOnFailureOrOutput ==
    /\ Events("break") # {} =>
           \/ Failed
           \/ /\ decisions # <<>>
              /\ StepOf(decisions[Len(decisions)]) = Str(sOutput)
    /\ (InQuery /\ pc \notin LoopPcs) => Events("break") # {}
    /\ \A i \in DOMAIN decisions :
           StepOf(decisions[i]) = Str(sAction) => Cardinality(Events("fetch")) > i

\* a write of o/s/f, then a write of the directory o/s, which failed: the
\* loop still waits for the next Decision
C5_Witness ==
    /\ Len(decisions) = 2
    /\ Get(decisions[2], "tool") = Str(sWriteFile)
    /\ Get(Get(decisions[2], "input"), "filePath") = Str(pDir)
    /\ IsDir(fs, pDir)
    /\ pc = "fetch"

(***************************************************************************)
(* C6.  Every truthy value callGemini returns is pushed as a model Turn   *)
(* at once: the push is the first thing the loop does with it, before a   *)
(* line is printed or a tool runs, whatever its step.  So the model Turns *)
(* of the history after the seed, and of every request that is            *)
(* outstanding, hold the serialized Decisions of the query in order.      *)
(***************************************************************************)
C6_DecisionPushedFirst ==
    InQuery =>
        /\ \A i \in Events("return") :
               trace[i].a = "truthy" =>
                   /\ i < Len(trace)
                   /\ trace[i + 1] = Ev("push", "model", <<>>)
        /\ CarriesDecisions(chatHistory, decisions)
        /\ pc \in LoopPcs => CarriesDecisions(requestBody, decisions)

\* a request is outstanding that carries two Decisions: a number, which is
\* no Decision object at all, and an action
C6_Witness ==
    /\ pc = "fetch"
    /\ Len(decisions) = 2
    /\ decisions[1] = Num(7)
    /\ StepOf(decisions[2]) = Str(sAction)

(***************************************************************************)
(* C7.  Each action Decision leaves exactly one Observation: one user     *)
(* Turn {"step":"observe","output":...} right after the Decision's model  *)
(* Turn.  The Observation is pushed after the tool ran and the result was *)
(* printed and before the next request is sent, which carries it.         *)
(***************************************************************************)
C7_OneObservationPerAction ==
    InQuery =>
        /\ [i \in 1..(Len(chatHistory) - 3) |-> chatHistory[i + 3].role]
               = ExpectedRoles(decisions)
        /\ \A i \in 4..Len(chatHistory) :
               chatHistory[i].role = "user" => IsObserveText(chatHistory[i].text)
        /\ Cardinality({i \in Pushes : trace[i].a = "user"})
               = Cardinality(Prints("action"))
        /\ \A i \in Prints("action") :
               \E m \in Pushes :
                   /\ m > i
                   /\ trace[m].a = "user"
                   /\ trace[m - 1].e = "print" /\ trace[m - 1].a = "observe"
                   /\ \A j \in (i + 1)..(m - 2) : trace[j].e = "tool"
                   /\ m - 2 - i <= 1
        /\ pc \in LoopPcs => requestBody = chatHistory

\* two action Decisions, a sum and a write, each followed by its
\* Observation, and the next request outstanding
C7_Witness ==
    /\ pc = "fetch"
    /\ Len(decisions) = 2
    /\ Get(decisions[1], "tool") = Str(sAddTwoNumbers)
    /\ Get(decisions[2], "tool") = Str(sWriteFile)
    /\ Len(chatHistory) = 7
    /\ chatHistory[5].text = ObserveText(<<"3", "0">>)

(***************************************************************************)
(* C8.  A query starts with a history of exactly three Turns: the system  *)
(* prompt, the canned acknowledgment, and the line just read.  In every   *)
(* state of the query the history, and the request that is outstanding,   *)
(* is these three Turns followed by the Turns pushed in this query: no    *)
(* Turn of an earlier query is left.                                       *)
(***************************************************************************)
C8_HistoryReseeded ==
    InQuery =>
        /\ trace[1].e = "line"
        /\ ToLowerCase(trace[1].t) # sExit
        /\ Len(chatHistory) = 3 + Cardinality(Pushes)
        /\ SubSeq(chatHistory, 1, 3) = SeedTurns(trace[1].t)
        /\ pc \in LoopPcs =>
               /\ Len(requestBody) = 3 + Cardinality(Pushes)
               /\ SubSeq(requestBody, 1, 3) = SeedTurns(trace[1].t)
        /\ Cardinality(Events("return")) = 0 =>
               /\ chatHistory = SeedTurns(trace[1].t)
               /\ requestBody = chatHistory

\* the second query of a session has just been seeded with a line other
\* than the first query's, after a query that wrote a file
C8_Witness ==
    /\ queries = 2
    /\ pc = "fetch"
    /\ Events("return") = {}
    /\ chatHistory = SeedTurns(<<"e", "x", "i", "t", " ">>)
    /\ IsFile(fs, pFile)

(***************************************************************************)
(* C9.  Within a query the history is append-only: every step but the     *)
(* seeding of a new query leaves the old history as a prefix of the new   *)
(* one, and while the loop runs the first three Turns are the seed Turns. *)
(***************************************************************************)
C9_HistoryAppendOnly ==
    [][/\ queries' = queries => IsPrefix(chatHistory, chatHistory')
       /\ pc \in LoopPcs =>
              /\ Len(chatHistory) >= 3
              /\ SubSeq(chatHistory, 1, 3) = SeedTurns(trace[1].t)
              /\ SubSeq(chatHistory', 1, 3) = SubSeq(chatHistory, 1, 3)]_vars

\* a history of the seed and four Turns pushed by two action Decisions
C9_Witness ==
    /\ pc = "fetch"
    /\ Len(chatHistory) = 7

(***************************************************************************)
(* C10.  No retries.  The requests of a query are one more than the       *)
(* values callGemini returned while a request is outstanding and as many  *)
(* otherwise, and a step sends at most one.  A step in which a request    *)
(* fails leaves the history and the file system as they were, pushes no   *)
(* Turn, calls no tool, sends no request and leaves the loop.             *)
(***************************************************************************)
C10_NoRetry ==
    [][/\ Cardinality(Events("fetch"))
              = Cardinality(Events("return")) + (IF pc \in LoopPcs THEN 1 ELSE 0)
       /\ Count(trace', "fetch") <= Cardinality(Events("fetch")) + 1
              \/ queries' # queries
       /\ RequestFails =>
              /\ chatHistory' = chatHistory
              /\ fs' = fs
              /\ Count(trace', "push") = Cardinality(Pushes)
              /\ Count(trace', "tool") = Count(trace, "tool")
              /\ Count(trace', "fetch") = Cardinality(Events("fetch"))
              /\ Count(trace', "return") = Cardinality(Events("return")) + 1
              /\ pc' = "question"
              /\ requestBody' = <<>>]_vars

\* the third request of a query failed after two Decisions
C10_Witness ==
    /\ Failed
    /\ Prints("error") # {}
    /\ Len(decisions) = 2
    /\ Cardinality(Events("fetch")) = 3
    /\ pc = "question"

(***************************************************************************)
(* C11.  Nothing is silently dropped: when the loop of a query was left   *)
(* and no final answer was printed, an error line was printed before the  *)
(* driver asked the next question.                                         *)
(***************************************************************************)
C11_NothingSilentlyDropped ==
    (Events("break") # {} /\ Prints("output") = {}) =>
        \E i \in Prints("error") : \A q \in Events("question") : i < q

(***************************************************************************)
(* The program under an oracle that exercises addTwoNumbers: the same     *)
(* actions, with the lines typed and the bodies answered drawn from the   *)
(* sets below.                                                             *)
(***************************************************************************)
\* the lines typed in the runs that exercise a tool
ToolQueries == {<<"h", "i">>, sExit}

\* inputs of addTwoNumbers: two literals, a bad first and a bad second
\* operand, one operand only, an empty first operand, signs and blanks,
\* and an input that is no string
AddInputs ==
    {Str(<<"1", "0", ",", "2", "0">>),
     Str(<<"a", ",", "5">>),
     Str(<<"5", ",", "a">>),
     Str(<<"5">>),
     Str(<<",", "5">>),
     Str(<<"-", "3", ",", " ", "4">>),
     Null}

AddToolDecisions ==
    {Decision(Str(sAction), Str(sAddTwoNumbers), input, Undef) : input \in AddInputs}

AddApiResults ==
    {ApiResult(<<Candidate(<<tJson(v)>>)>>, FALSE) :
         v \in AddToolDecisions \cup
               {Decision(Str(sOutput), Null, Null, Str(<<"d", "o", "n", "e">>))}}

AddNext ==
    \/ Boot
    \/ \E userQuery \in ToolQueries : Question(userQuery)
    \/ FetchRejected
    \/ \E status \in Statuses : FetchResolved(status)
    \/ TextSettled
    \/ JsonRejected
    \/ \E result \in AddApiResults : JsonResolved(result)

AddSpec == Init /\ [][AddNext]_vars

(***************************************************************************)
(* Vocabulary of the tool properties.                                      *)
(***************************************************************************)
\* the digits of a signed literal
Unsigned(t) == IF t # <<>> /\ Head(t) \in {"+", "-"} THEN Tail(t) ELSE t

\* t is an optionally signed run of decimal digits
IsLiteralText(t) ==
    /\ Unsigned(t) # <<>>
    /\ \A i \in 1..Len(Unsigned(t)) : IsDigit(Unsigned(t)[i])

\* the operand s is a numeric literal, white space around it allowed
IsNumericLiteral(s) == IsLiteralText(Trim(s))

LiteralTextValue(t) ==
    IF Head(t) = "-" THEN 0 - DigitsValue(Unsigned(t)) ELSE DigitsValue(Unsigned(t))

LiteralValue(s) == LiteralTextValue(Trim(s))

\* the operands are two numeric literals
TwoLiterals(parts) ==
    Len(parts) = 2 /\ IsNumericLiteral(parts[1]) /\ IsNumericLiteral(parts[2])

\* one of the two operands is missing or fails numeric parse
OperandFails(parts) ==
    \/ Len(parts) < 2
    \/ ~IsNumericLiteral(parts[1])
    \/ ~IsNumericLiteral(parts[2])

\* this step receives an action Decision for the tool named
Calls(tool) ==
    /\ Receives
    /\ StepOf(Received) = Str(sAction)
    /\ Get(Received, "tool") = Str(tool)

\* this step appends the Decision's model Turn and the Observation whose
\* output has the JSON text json, prints the Observation as text, and
\* sends the next request
Observes(json, text) ==
    /\ chatHistory' = chatHistory \o
           <<[role |-> "model", text |-> Stringify(Received)],
             [role |-> "user", text |-> ObserveText(json)]>>
    /\ trace'[Len(trace') - 2] = Ev("print", "observe", <<"Result: ">> \o text)
    /\ pc' = "fetch"
    /\ requestBody' = chatHistory'

\* the JSON text of a string without characters to escape
Quoted(s) == <<"\"">> \o s \o <<"\"">>

InvalidNumber == <<"Error executing tool: ", "Invalid number input.">>

\* what C12 asks of a call of addTwoNumbers with these operands
AddsOrRejects(parts) ==
    /\ TwoLiterals(parts) =>
           /\ Observes(NumChars(LiteralValue(parts[1]) + LiteralValue(parts[2])),
                       NumChars(LiteralValue(parts[1]) + LiteralValue(parts[2])))
           /\ Count(trace', "tool") = Count(trace, "tool") + 1
    /\ OperandFails(parts) =>
           /\ Observes(Quoted(InvalidNumber), InvalidNumber)
           /\ Count(trace', "tool") = Count(trace, "tool")

(***************************************************************************)
(* C12.  A call of addTwoNumbers whose input is two comma-separated       *)
(* numeric literals is observed as their sum; a call in which an operand  *)
(* is missing or fails numeric parse is observed as the invalid-number    *)
(* error without a sum being computed; either way the next request is     *)
(* sent.                                                                   *)
(***************************************************************************)
C12_AddTwoNumbers ==
    [][Calls(sAddTwoNumbers) =>
           AddsOrRejects(Split(ToStr(Get(Received, "input")), ","))]_vars

(***************************************************************************)
(* The program under an oracle that exercises writeFile.                  *)
(***************************************************************************)
hi == <<"h", "i">>

\* a content of one character outside ASCII
accented == <<"U+00E9">>

\* inputs of writeFile: o/s/f written with three contents and a file in
\* the working directory; then a string, null, a missing and an empty
\* filePath, a missing fileContent, and a fileContent that is null
WriteInputs ==
    {WriteA,
     FileInput(Str(pFile), Str(accented)),
     FileInput(Str(pFile), Str(<<>>)),
     FileInput(Str(<<"f">>), Str(hi)),
     Str(pFile),
     Null,
     FileInput(Undef, Str(hi)),
     FileInput(Str(<<>>), Str(hi)),
     FileInput(Str(pFile), Undef),
     FileInput(Str(pFile), Null)}

WriteToolDecisions ==
    {Decision(Str(sAction), Str(sWriteFile), input, Undef) : input \in WriteInputs}

WriteApiResults ==
    {ApiResult(<<Candidate(<<tJson(v)>>)>>, FALSE) :
         v \in WriteToolDecisions \cup
               {Decision(Str(sOutput), Null, Null, Str(<<"d", "o", "n", "e">>))}}

WriteNext ==
    \/ Boot
    \/ \E userQuery \in ToolQueries : Question(userQuery)
    \/ FetchRejected
    \/ \E status \in Statuses : FetchResolved(status)
    \/ TextSettled
    \/ JsonRejected
    \/ \E result \in WriteApiResults : JsonResolved(result)

WriteSpec == Init /\ [][WriteNext]_vars

\* input is a structured object with a non-empty filePath and a fileContent
\* string
IsWriteInput(input) ==
    /\ input.k = "object"
    /\ input.filePath.k = "string"
    /\ input.filePath.s # <<>>
    /\ input.fileContent.k = "string"

\* the Observation this step printed, without the "Result: " before it
Observed == Tail(trace'[Len(trace') - 2].t)

\* this step appends the Decision's model Turn and one Observation Turn,
\* prints the Observation, and sends the next request
ObservesOnce ==
    /\ Len(chatHistory') = Len(chatHistory) + 2
    /\ chatHistory'[Len(chatHistory) + 1] =
           [role |-> "model", text |-> Stringify(Received)]
    /\ chatHistory'[Len(chatHistory')] =
           [role |-> "user", text |-> ObserveText(Quoted(Escape(Observed)))]
    /\ trace'[Len(trace') - 2].e = "print"
    /\ trace'[Len(trace') - 2].a = "observe"
    /\ pc' = "fetch"
    /\ requestBody' = chatHistory'

(***************************************************************************)
(* C13.  A call of writeFile changes the file system only when the input  *)
(* is an object with a non-empty filePath string and a fileContent        *)
(* string, the empty string included.  For every other input the          *)
(* Observation is an error message, the file system stays as it was, and  *)
(* the next request is sent.                                               *)
(***************************************************************************)
C13_WriteFileValidatesInput ==
    [][Calls(sWriteFile) =>
           /\ ObservesOnce
           /\ ~IsWriteInput(Get(Received, "input")) =>
                  /\ fs' = fs
                  /\ Head(Observed) \in {"Error executing tool: ", "Error writing file: "}
           /\ fs' # fs => IsWriteInput(Get(Received, "input"))]_vars

\* the bytes fs.writeFileSync writes for one character of a string: it
\* encodes the string as UTF-8
Utf8Bytes(c) == IF c = "U+00E9" THEN 2 ELSE 1

RECURSIVE ByteLength(_)
\* the bytes written for the string s
ByteLength(s) ==
    IF s = <<>> THEN 0 ELSE Utf8Bytes(Head(s)) + ByteLength(Tail(s))

\* what C14 asks of a successful write of content to path
WrittenAndReported(path, content) ==
    /\ \A d \in Chain(Dirname(path)) : IsDir(fs', d)
    /\ fs.dirs \subseteq fs'.dirs
    /\ IsFile(fs', path)
    /\ fs'.files[path] = content
    /\ \A q \in DOMAIN fs.files : q # path => (IsFile(fs', q) /\ fs'.files[q] = fs.files[q])
    /\ Observed = <<"Successfully wrote ">> \o NumChars(ByteLength(content))
                      \o <<" bytes to ">> \o path

(***************************************************************************)
(* C14.  After a call of writeFile that reports success, whatever the     *)
(* file system was before: the directories above filePath exist, the file *)
(* at filePath holds exactly fileContent, whatever it held before, the    *)
(* other files are as they were, and the Observation reports the number   *)
(* of bytes written.                                                       *)
(***************************************************************************)
C14_WriteFileWritesAndReports ==
    [][(Calls(sWriteFile) /\ Head(Observed) = "Successfully wrote ") =>
           WrittenAndReported(Get(Get(Received, "input"), "filePath").s,
                              Get(Get(Received, "input"), "fileContent").s)]_vars

\* the word exit in every letter case
ExitSpellings ==
    {<<e, x, i, t>> : e \in {"e", "E"}, x \in {"x", "X"}, i \in {"i", "I"},
                      t \in {"t", "T"}}

\* this step is the rl.question callback, which trace' then starts with
\* the line of
ReadsLine == pc = "question" /\ pc' # "question"

(***************************************************************************)
(* C15.  The step that reads a line spelling exit in any letter case      *)
(* closes the session: the history stays as it was, no request is sent    *)
(* and no question is asked, and no step follows it.  The step that reads *)
(* any other line starts one agent loop for that line: the history is     *)
(* reseeded with the line as the query and the first request of the loop  *)
(* is sent.                                                                *)
(***************************************************************************)
C15_ExitClosesSession ==
    [][/\ pc # "closed"
       /\ ReadsLine =>
              /\ trace'[1].e = "line"
              /\ IF trace'[1].t \in ExitSpellings
                 THEN /\ pc' = "closed"
                      /\ chatHistory' = chatHistory
                      /\ queries' = queries
                      /\ requestBody' = <<>>
                      /\ Count(trace', "seed") = 0
                      /\ Count(trace', "fetch") = 0
                      /\ Count(trace', "question") = 0
                 ELSE /\ pc' = "fetch"
                      /\ queries' = queries + 1
                      /\ chatHistory' = SeedTurns(trace'[1].t)
                      /\ requestBody' = chatHistory'
                      /\ Count(trace', "seed") = 1
                      /\ Count(trace', "log") = 1
                      /\ Count(trace', "fetch") = 1]_vars

\* the session was closed by the line ExIT after a query that pushed Turns
C15_Witness ==
    /\ pc = "closed"
    /\ trace[1].t = <<"E", "x", "I", "T">>
    /\ queries = 1
    /\ Len(chatHistory) > 3

\* the loops started since the last line was read
Started == {i \in Events("log") : trace[i].t = <<"Agent is processing...">>}

\* the number of events of kind e before place i of the trace
Before(i, e) == Cardinality({j \in Events(e) : j < i})

(***************************************************************************)
(* C16.  Single flow.  At most one loop is active and at most one request *)
(* is outstanding, and both exactly while callGemini waits; tools run and *)
(* Turns are pushed only when every request sent has been answered; the   *)
(* history is seeded before the loop starts; and a question is asked only *)
(* after the loop was left, as the last thing done, so a line is read     *)
(* only when no loop is active.                                            *)
(***************************************************************************)
C16_SingleFlow ==
    /\ Cardinality(Started) - Cardinality(Events("break"))
           = (IF pc \in LoopPcs THEN 1 ELSE 0)
    /\ Cardinality(Events("fetch")) - Cardinality(Events("return"))
           = (IF pc \in LoopPcs THEN 1 ELSE 0)
    /\ (requestBody # <<>>) = (pc \in LoopPcs)
    /\ \A i \in Events("tool") \cup Events("push") :
           Before(i, "fetch") = Before(i, "return")
    /\ \A i \in Events("seed") :
           /\ Before(i, "fetch") = 0
           /\ \A j \in Started : i < j
    /\ \A i \in Events("question") :
           /\ i = Len(trace)
           /\ pc = "question"
           /\ Cardinality(Started) = Cardinality(Events("break"))
    /\ \A i \in Events("line") : i = 1
    /\ pc = "question" => Events("question") # {}

\* in the second query of a session a tool has run and the next request is
\* outstanding
C16_Witness ==
    /\ queries = 2
    /\ pc = "json"
    /\ Events("tool") # {}
    /\ Cardinality(Events("fetch")) = 2

(***************************************************************************)
(* The program started with or without GEMINI_API_KEY in its environment. *)
(***************************************************************************)
InitAnyEnv ==
    /\ pc = "boot"
    /\ chatHistory = <<>>
    /\ fs = EmptyFs
    /\ requestBody = <<>>
    /\ response = NoResponse
    /\ trace = <<>>
    /\ decisions = <<>>
    /\ queries = 0
    /\ env \in {Undef, Str(<<"k", "e", "y">>)}

KeySpec == InitAnyEnv /\ [][Next]_vars

(***************************************************************************)
(* C17.  When GEMINI_API_KEY is not set in the environment the process    *)
(* exits at startup: it never asks a question, starts no query, sends no  *)
(* request, and prints no error of a failed oracle call.                   *)
(***************************************************************************)
C17_MissingKeyIsFatal ==
    env = Undef =>
        /\ pc \in {"boot", "exited"}
        /\ Events("question") = {}
        /\ Events("fetch") = {}
        /\ queries = 0
        /\ \A i \in Prints("error") :
               Head(trace[i].t) # "Error calling Gemini API or parsing response: "

(***************************************************************************)
(* The program under an oracle that answers every request and, for each   *)
(* query, ends its answers with a Decision with step = output or with a   *)
(* failure: by the MaxIter-th request of the query at the latest.          *)
(***************************************************************************)
LiveApiResults ==
    {ApiResult(<<Candidate(<<tJson(v)>>)>>, FALSE) :
         v \in {Decision(Str(sThink), Null, Null, Str(<<"p", "l", "a", "n">>)),
                Decision(Str(sAction), Str(sAddTwoNumbers),
                         Str(<<"1", "0", ",", "2", "0">>), Undef),
                Decision(Str(<<"T", "h", "i", "n", "k">>), Null, Null, Undef),
                Decision(Str(sOutput), Null, Null, Str(<<"d", "o", "n", "e">>))}}
        \cup {ApiResult(<<Candidate(<<tJunk>>)>>, FALSE), ApiResult(<<>>, TRUE)}

\* a request that is outstanding is answered, and the answer is read
OracleAnswers ==
    \/ FetchRejected
    \/ \E status \in Statuses : FetchResolved(status)
    \/ TextSettled
    \/ JsonRejected
    \/ \E result \in LiveApiResults : JsonResolved(result)

LiveNext ==
    \/ Boot
    \/ \E userQuery \in ToolQueries : Question(userQuery)
    \/ OracleAnswers

LiveSpec == Init /\ [][LiveNext]_vars /\ WF_vars(OracleAnswers)

(***************************************************************************)
(* C18.  Under an oracle that ends its answers to each query with an      *)
(* output Decision or a failure, every loop that waits for the oracle     *)
(* ends, and the question is asked again.  The loop itself has no bound:  *)
(* every Decision whose step is not output is followed by one more        *)
(* request, so the loop goes on as long as the oracle sends such          *)
(* Decisions.                                                              *)
(***************************************************************************)
C18_LoopRunsToCompletion ==
    /\ (pc \in LoopPcs) ~>
           /\ pc = "question"
           /\ trace[Len(trace)] = Ev("question", "", <<>>)
           /\ trace[Len(trace) - 1] = Ev("break", "", <<>>)
    /\ [][(Receives /\ StepOf(Received) # Str(sOutput)) =>
              /\ pc' = "fetch"
              /\ Count(trace', "break") = 0
              /\ Count(trace', "fetch") = Cardinality(Events("fetch")) + 1]_vars

\* a loop that ran three iterations has ended with an output Decision and
\* the question is asked again
C18_Witness ==
    /\ pc = "question"
    /\ Len(decisions) = 3
    /\ StepOf(decisions[1]) = Str(sThink)
    /\ StepOf(decisions[2]) = Str(sAction)
    /\ StepOf(decisions[3]) = Str(sOutput)
    /\ trace[Len(trace)] = Ev("question", "", <<>>)

(***************************************************************************)
(* The program under an oracle whose answers decode to values that are no *)
(* Decisions: objects without a step, with a step that is null or another *)
(* string, and truthy values that are no objects.                         *)
(***************************************************************************)
StrayValues ==
    {Decision(Undef, Str(sWriteFile), WriteA, Str(<<"p", "l", "a", "n">>)),
     Decision(Null, Null, Null, Undef),
     Decision(Str(<<"T", "h", "i", "n", "k">>), Null, Null, Undef),
     Decision(Str(<<"o", "b", "s", "e", "r", "v", "e">>), Str(sAddTwoNumbers),
              Str(<<"1", "0", ",", "2", "0">>), Undef),
     Num(7),
     Bool(TRUE),
     Str(sOutput)}

StrayApiResults ==
    {ApiResult(<<Candidate(<<tJson(v)>>)>>, FALSE) :
         v \in StrayValues \cup
               {Decision(Str(sOutput), Null, Null, Str(<<"d", "o", "n", "e">>))}}

StrayNext ==
    \/ Boot
    \/ \E userQuery \in ToolQueries : Question(userQuery)
    \/ FetchRejected
    \/ \E status \in Statuses : FetchResolved(status)
    \/ TextSettled
    \/ JsonRejected
    \/ \E result \in StrayApiResults : JsonResolved(result)

StraySpec == Init /\ [][StrayNext]_vars

(***************************************************************************)
(* C19.  The step that receives a truthy value whose step is none of      *)
(* think, action, output appends its model Turn and sends the next        *)
(* request, and does nothing else: no line is printed, no tool runs, the  *)
(* file system stays as it was, and the loop is not left.  Each such      *)
(* value makes the history one Turn longer.                                *)
(***************************************************************************)
C19_UnknownStepIgnored ==
    [][(Receives /\ StepOf(Received) \notin {Str(sThink), Str(sAction), Str(sOutput)}) =>
           /\ chatHistory' = Append(chatHistory,
                                    [role |-> "model", text |-> Stringify(Received)])
           /\ fs' = fs
           /\ trace' = trace \o <<Ev("return", "truthy", <<>>),
                                  Ev("push", "model", <<>>),
                                  Ev("fetch", "", <<>>)>>
           /\ pc' = "fetch"
           /\ requestBody' = chatHistory']_vars

\* two such values in a row, an object without step that names writeFile
\* and the JSON string "output": the history holds five Turns, no file
\* was written, and the third request is outstanding
C19_Witness ==
    /\ Len(decisions) = 2
    /\ decisions[1] = Decision(Undef, Str(sWriteFile), WriteA, Str(<<"p", "l", "a", "n">>))
    /\ decisions[2] = Str(sOutput)
    /\ Len(chatHistory) = 5
    /\ fs = EmptyFs
    /\ Prints("error") = {}
    /\ pc = "fetch"

\* the action Decisions among the first n Decisions of the query
ActionsAmong(n) == {m \in 1..n : StepOf(decisions[m]) = Str(sAction)}

\* the place in the history of the model Turn of Decision number j
PlaceOf(j) == 3 + j + Cardinality(ActionsAmong(j - 1))

(***************************************************************************)
(* C20.  Whenever a query waits, for the oracle or for the next line, its *)
(* history holds 3 + (values received) + (those with step = action)       *)
(* Turns: the model Turn of each value received, in order, and right      *)
(* after the model Turn of each action Decision its Observation, which    *)
(* are the only user Turns after the seed.                                 *)
(***************************************************************************)
C20_HistoryShape ==
    InQuery =>
        /\ Len(chatHistory) =
               3 + Len(decisions) + Cardinality(ActionsAmong(Len(decisions)))
        /\ \A j \in DOMAIN decisions :
               /\ chatHistory[PlaceOf(j)] =
                      [role |-> "model", text |-> Stringify(decisions[j])]
               /\ StepOf(decisions[j]) = Str(sAction) =>
                      /\ chatHistory[PlaceOf(j) + 1].role = "user"
                      /\ IsObserveText(chatHistory[PlaceOf(j) + 1].text)
        /\ \A i \in 4..Len(chatHistory) :
               chatHistory[i].role = "user" =>
                   \E j \in ActionsAmong(Len(decisions)) : i = PlaceOf(j) + 1

\* an action Decision and a value that is no Decision were received: the
\* history holds 3 + 2 + 1 Turns and the third request is outstanding
C20_Witness ==
    /\ Len(decisions) = 2
    /\ StepOf(decisions[1]) = Str(sAction)
    /\ decisions[2] = Num(7)
    /\ Len(chatHistory) = 6
    /\ chatHistory[5].role = "user"
    /\ pc = "fetch"

=============================================================================
